---- MODULE Spec2Model ----
(***************************************************************************)
(* Model of src/common/src/docker.ts: the mount-string parser parseMount   *)
(* and the three orchestration functions buildImage, runContainer and      *)
(* pushImage, which assemble an argument vector and hand it to the process *)
(* runner `exec`.                                                          *)
(*                                                                         *)
(* A JavaScript string is modelled as the sequence of its characters, so   *)
(* that String.prototype.split, template literals and string comparison    *)
(* are computed character by character.  The value `undefined` is the      *)
(* one-element sequence Undefined, which no string equals (every element   *)
(* of a string is a single character).                                     *)
(***************************************************************************)
EXTENDS Integers, Sequences, FiniteSets, TLC

VARIABLES
    mountString,  \* parseMount: the argument of the call
    parsed,       \* parseMount: the outcome of the call (return value or throw)
    pc,           \* orchestration call: "idle", "awaitExec", "returned", "threw"
    op,           \* orchestration call: "none", "build", "run", "push"
    inp,          \* orchestration call: its arguments and what the collaborators returned
    args,         \* orchestration call: the local array `args`
    execLog,      \* the invocations of the process runner, in order
    exitCode,     \* what `await exec(...)` resolved to (NoExitCode before that)
    error,        \* the message of the Error the call threw (Undefined if none)
    processEnv,   \* the value the environment gives the placeholder
    fsPaths       \* the paths that exist on the filesystem

vars ==
    <<mountString, parsed, pc, op, inp, args, execLog, exitCode, error,
      processEnv, fsPaths>>

parseVars == <<mountString, parsed>>

callVars == <<pc, op, inp, args, execLog, exitCode, error>>

envVars == <<processEnv, fsPaths>>

(***************************************************************************)
(* Bounds of the model.                                                    *)
(***************************************************************************)
MaxSegs == 3

MaxMounts == 2

MaxBuildArgs == 2

(***************************************************************************)
(* JavaScript values and built-ins used by the source.                     *)
(***************************************************************************)
Undefined == <<"undefined">>

NoExitCode == -1

\* s1 + s2 + ... : the concatenation of a sequence of strings
RECURSIVE concat(_)
concat(ss) ==
    IF ss = <<>> THEN <<>> ELSE Head(ss) \o concat(Tail(ss))

\* String.prototype.split with a one-character separator: always at least one
\* part; n separators give n + 1 parts, empty parts included.
RECURSIVE split(_, _)
split(s, sep) ==
    LET hits == {i \in 1..Len(s) : s[i] = sep} IN
    IF hits = {} THEN <<s>>
    ELSE LET i == CHOOSE j \in hits : \A k \in hits : j <= k
         IN  <<SubSeq(s, 1, i - 1)>> \o split(SubSeq(s, i + 1, Len(s)), sep)

\* parts[i] with JavaScript's zero-based index: undefined past the end
at(parts, i) ==
    IF i + 1 <= Len(parts) THEN parts[i + 1] ELSE Undefined

(***************************************************************************)
(* parseMount                                                              *)
(***************************************************************************)
DockerMount(type, source, target) ==
    [type |-> type, source |-> source, target |-> target]

return(value) == [kind |-> "return", value |-> value]

throw(message) == [kind |-> "throw", message |-> message]

\* switchOption with the default case ignoring the option instead of throwing
switchOption_ignoreUnknown(m, parts) ==
    CASE at(parts, 0) = <<"t","y","p","e">> ->
            return(DockerMount(at(parts, 1), m.source, m.target))
      [] at(parts, 0) \in {<<"s","r","c">>, <<"s","o","u","r","c","e">>} ->
            return(DockerMount(m.type, at(parts, 1), m.target))
      [] at(parts, 0) \in {<<"d","s","t">>, <<"d","e","s","t","i","n","a","t","i","o","n">>, <<"t","a","r","g","e","t">>} ->
            return(DockerMount(m.type, m.source, at(parts, 1)))
      [] OTHER ->
            return(m)

\* switchOption assigning a field only while it is still ''
switchOption_firstWins(m, parts) ==
    CASE at(parts, 0) = <<"t","y","p","e">> ->
            return(DockerMount(IF m.type = <<>> THEN at(parts, 1) ELSE m.type,
                               m.source, m.target))
      [] at(parts, 0) \in {<<"s","r","c">>, <<"s","o","u","r","c","e">>} ->
            return(DockerMount(m.type,
                               IF m.source = <<>> THEN at(parts, 1) ELSE m.source,
                               m.target))
      [] at(parts, 0) \in {<<"d","s","t">>, <<"d","e","s","t","i","n","a","t","i","o","n">>, <<"t","a","r","g","e","t">>} ->
            return(DockerMount(m.type, m.source,
                               IF m.target = <<>> THEN at(parts, 1) ELSE m.target))
      [] at(parts, 0) \in {<<"r","e","a","d","o","n","l","y">>, <<"r","o">>} ->
            return(m)
      [] OTHER ->
            throw(concat(<<<<"U","n","h","a","n","d","l","e","d"," ","m","o","u","n","t"," ","o","p","t","i","o","n"," ","'">>, at(parts, 0), <<"'">>>>))

\* switchOption without the break after `source = parts[1]`: falls through
\* into `target = parts[1]`
switchOption_sourceFallsThrough(m, parts) ==
    CASE at(parts, 0) = <<"t","y","p","e">> ->
            return(DockerMount(at(parts, 1), m.source, m.target))
      [] at(parts, 0) \in {<<"s","r","c">>, <<"s","o","u","r","c","e">>} ->
            return(DockerMount(m.type, at(parts, 1), at(parts, 1)))
      [] at(parts, 0) \in {<<"d","s","t">>, <<"d","e","s","t","i","n","a","t","i","o","n">>, <<"t","a","r","g","e","t">>} ->
            return(DockerMount(m.type, m.source, at(parts, 1)))
      [] at(parts, 0) \in {<<"r","e","a","d","o","n","l","y">>, <<"r","o">>} ->
            return(m)
      [] OTHER ->
            throw(concat(<<<<"U","n","h","a","n","d","l","e","d"," ","m","o","u","n","t"," ","o","p","t","i","o","n"," ","'">>, at(parts, 0), <<"'">>>>))

\* switchOption without the break after the 'readonly'/'ro' case: falls
\* through into the default case
switchOption_readonlyFallsThrough(m, parts) ==
    CASE at(parts, 0) = <<"t","y","p","e">> ->
            return(DockerMount(at(parts, 1), m.source, m.target))
      [] at(parts, 0) \in {<<"s","r","c">>, <<"s","o","u","r","c","e">>} ->
            return(DockerMount(m.type, at(parts, 1), m.target))
      [] at(parts, 0) \in {<<"d","s","t">>, <<"d","e","s","t","i","n","a","t","i","o","n">>, <<"t","a","r","g","e","t">>} ->
            return(DockerMount(m.type, m.source, at(parts, 1)))
      [] OTHER ->
            throw(concat(<<<<"U","n","h","a","n","d","l","e","d"," ","m","o","u","n","t"," ","o","p","t","i","o","n"," ","'">>, at(parts, 0), <<"'">>>>))

\* the body of the for loop: the switch on parts[0]
switchOption(m, parts) ==
    CASE at(parts, 0) = <<"t","y","p","e">> ->
            return(DockerMount(at(parts, 1), m.source, m.target))
      [] at(parts, 0) \in {<<"s","r","c">>, <<"s","o","u","r","c","e">>} ->
            return(DockerMount(m.type, at(parts, 1), m.target))
      [] at(parts, 0) \in {<<"d","s","t">>, <<"d","e","s","t","i","n","a","t","i","o","n">>, <<"t","a","r","g","e","t">>} ->
            return(DockerMount(m.type, m.source, at(parts, 1)))
      [] at(parts, 0) \in {<<"r","e","a","d","o","n","l","y">>, <<"r","o">>} ->
            return(m)
      [] OTHER ->
            throw(concat(<<<<"U","n","h","a","n","d","l","e","d"," ","m","o","u","n","t"," ","o","p","t","i","o","n"," ","'">>, at(parts, 0), <<"'">>>>))

\* for (const option of options): stops at the first throw
RECURSIVE forOptions(_, _, _)
forOptions(options, i, m) ==
    IF i > Len(options) THEN return(m)
    ELSE LET r == switchOption(m, split(options[i], "="))
         IN  IF r.kind = "throw" THEN r ELSE forOptions(options, i + 1, r.value)

parseMount(s) ==
    forOptions(split(s, ","), 1, DockerMount(<<>>, <<>>, <<>>))

(***************************************************************************)
(* Collaborators and library functions the orchestration functions call.   *)
(***************************************************************************)
\* falsy with the test inverted
falsy_inverted(v) == ~(v = Undefined \/ v = <<>>)

\* `!v` for a value that is a string or undefined
falsy(v) == v = Undefined \/ v = <<>>

\* v ?? ''
orEmpty(v) == IF v = Undefined THEN <<>> ELSE v

\* path.join on segments that are already normalized (no '.', '..', doubled
\* or trailing separators): the non-empty segments joined by '/', '.' if none
RECURSIVE joinSegments(_)
joinSegments(segs) ==
    IF segs = <<>> THEN <<>>
    ELSE IF Len(segs) = 1 THEN Head(segs)
    ELSE Head(segs) \o <<"/">> \o joinSegments(Tail(segs))

pathJoin(segs) ==
    LET kept == SelectSeq(segs, LAMBDA x : x # <<>>)
    IN  IF kept = <<>> THEN <<".">> ELSE joinSegments(kept)

\* The placeholder substitution of ./envvars: every placeholder, written "$"
\* here, is replaced by the value the process environment gives it.
RECURSIVE substituteValues(_)
substituteValues(s) ==
    IF s = <<>> THEN <<>>
    ELSE (IF Head(s) = "$" THEN processEnv ELSE <<Head(s)>>)
         \o substituteValues(Tail(s))

\* xs.map(a => substituteValues(a))
mapSubstituteValues(xs) == [i \in 1..Len(xs) |-> substituteValues(xs[i])]

\* fs.existsSync: false for anything that is not an existing path
existsSync(p) == p # Undefined /\ p \in fsPaths

\* `${n}` for a non-negative integer
RECURSIVE toString(_)
toString(n) ==
    LET digit == <<"0", "1", "2", "3", "4", "5", "6", "7", "8", "9">>[(n % 10) + 1]
    IN  IF n < 10 THEN <<digit>> ELSE toString(n \div 10) \o <<digit>>

\* await exec(command, args): one more invocation of the process runner
exec(log, command, a) == Append(log, [command |-> command, args |-> a])

(***************************************************************************)
(* buildImage                                                              *)
(***************************************************************************)
\* 'dockerfile not set in devcontainer.json - devcontainer-build-run currently
\* only supports Dockerfile-based dev containers'
dockerfileNotSet ==
    <<"d","o","c","k","e","r","f","i","l","e"," ","n","o","t"," ","s","e","t"," ","i","n"," ","d","e","v","c","o","n","t","a","i","n","e","r",".","j","s","o","n"," ","-"," ","d","e","v","c","o","n","t","a","i","n","e","r","-","b","u","i","l","d","-","r","u","n"," ","c","u","r","r","e","n","t","l","y"," ","o","n","l","y"," ","s","u","p","p","o","r","t","s"," ","D","o","c","k","e","r","f","i","l","e","-","b","a","s","e","d"," ","d","e","v"," ","c","o","n","t","a","i","n","e","r","s">>

\* for (const argName in buildArgs): nothing when buildArgs is undefined
RECURSIVE forBuildArgs(_, _, _)
forBuildArgs(buildArgs, i, a) ==
    IF i > Len(buildArgs) THEN a
    ELSE LET argName == buildArgs[i].name
             argValue == substituteValues(buildArgs[i].value)
         IN  forBuildArgs(buildArgs, i + 1,
                 a \o <<<<"-","-","b","u","i","l","d","-","a","r","g">>, concat(<<argName, <<"=">>, argValue>>)>>)

\* buildArgv with '-f' pushed before the build args
buildArgv_fileBeforeBuildArgs(imageName, buildArgs, dockerfilePath, contextPath) ==
    LET a0 == <<<<"b","u","i","l","d","x">>, <<"b","u","i","l","d">>,
                <<"-","-","t","a","g">>, imageName \o <<":","l","a","t","e","s","t">>,
                <<"-","-","c","a","c","h","e","-","f","r","o","m">>, <<"t","y","p","e","=","r","e","g","i","s","t","r","y",",","r","e","f","=">> \o imageName \o <<":","l","a","t","e","s","t">>,
                <<"-","-","c","a","c","h","e","-","t","o">>, <<"t","y","p","e","=","i","n","l","i","n","e">>,
                <<"-","-","o","u","t","p","u","t","=","t","y","p","e","=","d","o","c","k","e","r">>>> \o <<<<"-","f">>, dockerfilePath>>
        a1 == IF buildArgs.present THEN forBuildArgs(buildArgs.items, 1, a0) ELSE a0
    IN  a1 \o <<contextPath>>

buildArgv(imageName, buildArgs, dockerfilePath, contextPath) ==
    LET a0 == <<<<"b","u","i","l","d","x">>, <<"b","u","i","l","d">>,
                <<"-","-","t","a","g">>, imageName \o <<":","l","a","t","e","s","t">>,
                <<"-","-","c","a","c","h","e","-","f","r","o","m">>, <<"t","y","p","e","=","r","e","g","i","s","t","r","y",",","r","e","f","=">> \o imageName \o <<":","l","a","t","e","s","t">>,
                <<"-","-","c","a","c","h","e","-","t","o">>, <<"t","y","p","e","=","i","n","l","i","n","e">>,
                <<"-","-","o","u","t","p","u","t","=","t","y","p","e","=","d","o","c","k","e","r">>>>
        a1 == IF buildArgs.present THEN forBuildArgs(buildArgs.items, 1, a0) ELSE a0
    IN  a1 \o <<<<"-","f">>, dockerfilePath>> \o <<contextPath>>

buildError(code) == <<"b","u","i","l","d"," ","f","a","i","l","e","d"," ","w","i","t","h"," ">> \o toString(code)

buildImage(imageName, checkoutPath, subFolder, config) ==
    LET folder == pathJoin(<<checkoutPath, subFolder>>)
        devcontainerJsonPath == pathJoin(<<folder, <<".","d","e","v","c","o","n","t","a","i","n","e","r","/","d","e","v","c","o","n","t","a","i","n","e","r",".","j","s","o","n">>>>)
        configDockerfile == config.dockerfile
        dockerfilePath == pathJoin(<<folder, <<".","d","e","v","c","o","n","t","a","i","n","e","r">>, configDockerfile>>)
        configContext == orEmpty(config.context)
        contextPath == pathJoin(<<folder, <<".","d","e","v","c","o","n","t","a","i","n","e","r">>, configContext>>)
        a == buildArgv(imageName, config.args, dockerfilePath, contextPath)
    IN  /\ pc = "idle"
        /\ op' = "build"
        /\ inp' = [imageName |-> imageName, checkoutPath |-> checkoutPath,
                   subFolder |-> subFolder, config |-> config,
                   devcontainerJsonPath |-> devcontainerJsonPath]
        /\ IF falsy(configDockerfile)
           THEN /\ pc' = "threw"
                /\ error' = dockerfileNotSet
                /\ UNCHANGED <<args, execLog>>
           ELSE /\ pc' = "awaitExec"
                /\ args' = a
                /\ execLog' = exec(execLog, <<"d","o","c","k","e","r">>, a)
                /\ UNCHANGED error
        /\ UNCHANGED <<exitCode, parseVars, envVars>>

buildImageResume(code) ==
    /\ pc = "awaitExec"
    /\ op = "build"
    /\ exitCode' = code
    /\ IF code # 0
       THEN pc' = "threw" /\ error' = buildError(code)
       ELSE pc' = "returned" /\ UNCHANGED error
    /\ UNCHANGED <<op, inp, args, execLog, parseVars, envVars>>

(***************************************************************************)
(* runContainer                                                            *)
(***************************************************************************)
\* skipMount without the test of the mount's type
skipMount_anyType(mount) ==
    ~existsSync(mount.source)

\* lines 99-104: a bind mount whose source does not exist is skipped
skipMount(mount) ==
    mount.type = <<"b","i","n","d">> /\ ~existsSync(mount.source)

\* forEachMount with the parse error caught and the mount left out
RECURSIVE forEachMount_swallow(_, _, _)
forEachMount_swallow(ms, i, a) ==
    IF i > Len(ms) THEN [kind |-> "return", args |-> a]
    ELSE LET m == ms[i]
             mount == parseMount(m)
         IN  IF mount.kind = "throw" \/ skipMount(mount.value)
             THEN forEachMount_swallow(ms, i + 1, a)
             ELSE forEachMount_swallow(ms, i + 1, a \o <<<<"-","-","m","o","u","n","t">>, m>>)

\* devcontainerConfig.mounts.map(...).forEach(...): a throw of parseMount
\* leaves the loop; `args` is then what had been pushed before it
RECURSIVE forEachMount(_, _, _)
forEachMount(ms, i, a) ==
    IF i > Len(ms) THEN [kind |-> "return", args |-> a]
    ELSE LET m == ms[i]
             mount == parseMount(m)
         IN  IF mount.kind = "throw"
             THEN [kind |-> "throw", message |-> mount.message, args |-> a]
             ELSE IF skipMount(mount.value)
                  THEN forEachMount(ms, i + 1, a)
                  ELSE forEachMount(ms, i + 1, a \o <<<<"-","-","m","o","u","n","t">>, m>>)

\* lines 89-93
runHead(checkoutPathAbsolute, workspaceFolder) ==
    <<<<"r","u","n">>,
      <<"-","-","m","o","u","n","t">>,
      concat(<<<<"t","y","p","e","=","b","i","n","d",",","s","r","c","=">>, checkoutPathAbsolute, <<",","d","s","t","=">>, workspaceFolder>>)>>

\* for (const env of envs) args.push('--env', env)
RECURSIVE forEnvs(_, _, _)
forEnvs(envs, i, a) ==
    IF i > Len(envs) THEN a
    ELSE forEnvs(envs, i + 1, a \o <<<<"-","-","e","n","v">>, envs[i]>>)

\* runTail with the env entries pushed after the image reference
runTail_envsAfterImage(a, config, envs, imageName, command) ==
    LET a1 == a \o <<<<"-","-","w","o","r","k","d","i","r">>, config.workspaceFolder>>
                \o <<<<"-","-","u","s","e","r">>, config.remoteUser>>
        a2 == IF config.runArgs.present
              THEN a1 \o mapSubstituteValues(config.runArgs.items)
              ELSE a1
        a3 == a2 \o <<imageName \o <<":","l","a","t","e","s","t">>>>
        a4 == IF envs.present THEN forEnvs(envs.items, 1, a3) ELSE a3
    IN  a4 \o <<<<"b","a","s","h">>, <<"-","c">>, <<"s","u","d","o"," ","c","h","o","w","n"," ","-","R"," ","$","(","w","h","o","a","m","i",")"," ","."," ","&","&"," ">> \o command>>

\* lines 109-123
runTail(a, config, envs, imageName, command) ==
    LET a1 == a \o <<<<"-","-","w","o","r","k","d","i","r">>, config.workspaceFolder>>
                \o <<<<"-","-","u","s","e","r">>, config.remoteUser>>
        a2 == IF config.runArgs.present
              THEN a1 \o mapSubstituteValues(config.runArgs.items)
              ELSE a1
        a3 == IF envs.present THEN forEnvs(envs.items, 1, a2) ELSE a2
    IN  a3 \o <<imageName \o <<":","l","a","t","e","s","t">>>>
           \o <<<<"b","a","s","h">>, <<"-","c">>, <<"s","u","d","o"," ","c","h","o","w","n"," ","-","R"," ","$","(","w","h","o","a","m","i",")"," ","."," ","&","&"," ">> \o command>>

runError(code) == <<"r","u","n"," ","f","a","i","l","e","d"," ","w","i","t","h"," ">> \o toString(code)

\* checkoutPath is what getAbsolutePath(checkoutPath, process.cwd()) returned;
\* config.workspaceFolder and config.remoteUser what getWorkspaceFolder and
\* getRemoteUser returned.  The parameter `mounts` is never read.
runContainer(imageName, checkoutPath, subFolder, command, envs, config) ==
    LET checkoutPathAbsolute == checkoutPath
        folder == pathJoin(<<checkoutPathAbsolute, subFolder>>)
        devcontainerJsonPath == pathJoin(<<folder, <<".","d","e","v","c","o","n","t","a","i","n","e","r","/","d","e","v","c","o","n","t","a","i","n","e","r",".","j","s","o","n">>>>)
        a0 == runHead(checkoutPathAbsolute, config.workspaceFolder)
        r == IF config.mounts.present
             THEN forEachMount(mapSubstituteValues(config.mounts.items), 1, a0)
             ELSE [kind |-> "return", args |-> a0]
        a == runTail(r.args, config, envs, imageName, command)
    IN  /\ pc = "idle"
        /\ op' = "run"
        /\ inp' = [imageName |-> imageName, checkoutPath |-> checkoutPath,
                   subFolder |-> subFolder, command |-> command, envs |-> envs,
                   config |-> config,
                   devcontainerJsonPath |-> devcontainerJsonPath]
        /\ IF r.kind = "throw"
           THEN /\ pc' = "threw"
                /\ error' = r.message
                /\ args' = r.args
                /\ UNCHANGED execLog
           ELSE /\ pc' = "awaitExec"
                /\ args' = a
                /\ execLog' = exec(execLog, <<"d","o","c","k","e","r">>, a)
                /\ UNCHANGED error
        /\ UNCHANGED <<exitCode, parseVars, envVars>>

runContainerResume(code) ==
    /\ pc = "awaitExec"
    /\ op = "run"
    /\ exitCode' = code
    /\ IF code # 0
       THEN pc' = "threw" /\ error' = runError(code)
       ELSE pc' = "returned" /\ UNCHANGED error
    /\ UNCHANGED <<op, inp, args, execLog, parseVars, envVars>>

(***************************************************************************)
(* pushImage                                                               *)
(***************************************************************************)
pushArgv(imageName) == <<<<"p","u","s","h">>, imageName \o <<":","l","a","t","e","s","t">>>>

\* pushError without the exit code
pushError_noExitCode(code) == <<"p","u","s","h"," ","f","a","i","l","e","d">>

pushError(code) == <<"p","u","s","h"," ","f","a","i","l","e","d"," ","w","i","t","h"," ">> \o toString(code)

pushImage(imageName) ==
    /\ pc = "idle"
    /\ op' = "push"
    /\ inp' = [imageName |-> imageName]
    /\ pc' = "awaitExec"
    /\ args' = pushArgv(imageName)
    /\ execLog' = exec(execLog, <<"d","o","c","k","e","r">>, pushArgv(imageName))
    /\ UNCHANGED <<error, exitCode, parseVars, envVars>>

pushImageResume(code) ==
    /\ pc = "awaitExec"
    /\ op = "push"
    /\ exitCode' = code
    /\ IF code # 0
       THEN pc' = "threw" /\ error' = pushError(code)
       ELSE pc' = "returned" /\ UNCHANGED error
    /\ UNCHANGED <<op, inp, args, execLog, parseVars, envVars>>

(***************************************************************************)
(* The inputs the calls are made with.                                     *)
(***************************************************************************)
SeqsUpTo(S, n) == UNION {[1..k -> S] : k \in 0..n}

Optional(S) == {[present |-> FALSE, items |-> <<>>]}
               \cup {[present |-> TRUE, items |-> x] : x \in S}

ImageNames == {<<"i","m","g">>, <<"r","/","i">>}

CheckoutPaths == {<<"/","w">>, <<"w">>}

SubFolders == {<<>>, <<"s">>}

Commands == {<<"m","a","k","e">>}

ExitCodes == {0, 1, 130}

EnvValues == {<<"/","h">>, <<"/","a",",","x","=","1">>}

Filesystems == {{<<"/","a">>}, {<<"/","h">>}}

BuildArgNames == {<<"A">>, <<"B">>, <<"C">>}

BuildArgValues == {<<"1">>, <<"$">>}

BuildArgObjects ==
    {o \in SeqsUpTo([name : BuildArgNames, value : BuildArgValues], MaxBuildArgs) :
        \A i, j \in 1..Len(o) : o[i].name = o[j].name => i = j}

BuildConfigs ==
    [dockerfile : {Undefined, <<>>, <<"D","o","c","k","e","r","f","i","l","e">>},
     context : {Undefined, <<"c","t","x">>},
     args : Optional(BuildArgObjects)]

ConfigMounts ==
    {<<"t","y","p","e","=","b","i","n","d",",","s","r","c","=","/","a",",","d","s","t","=","/","c">>,
     <<"t","y","p","e","=","b","i","n","d",",","s","o","u","r","c","e","=","$">>,
     <<"t","y","p","e","=","v","o","l","u","m","e",",","s","r","c","=","/","a",",","r","o">>,
     <<"s","r","c","=","/","h">>,
     <<"t","y","p","e","=","b","i","n","d",",","x","=","1">>,
     <<"t","y","p","e","=","b","i","n","d",",","s","r","c">>}

ConfigRunArgs == Optional({<<>>, <<<<"-","-","r","m">>, <<"-","-","l","a","b","e","l","=","$">>>>})

Envs == Optional({<<>>, <<<<"K","=","v">>, <<"L","=","w">>>>})

RunConfigs ==
    [mounts : Optional(SeqsUpTo(ConfigMounts, MaxMounts)),
     runArgs : ConfigRunArgs,
     workspaceFolder : {<<"/","w","s">>},
     remoteUser : {<<"r","o","o","t">>}]

\* the comma-separated segments parseMount is applied to
Segments ==
    {<<"t","y","p","e","=","b","i","n","d">>, <<"t","y","p","e","=">>,
     <<"s","r","c","=","/","a">>, <<"s","o","u","r","c","e","=","/","b">>, <<"s","r","c">>,
     <<"d","s","t","=","/","a">>, <<"d","e","s","t","i","n","a","t","i","o","n","=","/","b">>, <<"t","a","r","g","e","t","=","/","a","=","/","b">>,
     <<"r","o">>, <<"r","e","a","d","o","n","l","y","=","1">>,
     <<"x","=","1">>, <<>>}

RECURSIVE join(_, _)
join(ss, sep) ==
    IF Len(ss) = 1 THEN Head(ss) ELSE Head(ss) \o <<sep>> \o join(Tail(ss), sep)

MountStrings ==
    {join(ss, ",") : ss \in UNION {[1..k -> Segments] : k \in 1..MaxSegs}}

(***************************************************************************)
(* The orchestration functions: one call, made from the idle state.        *)
(***************************************************************************)
Init ==
    /\ mountString = <<>>
    /\ parsed = [kind |-> "pending"]
    /\ pc = "idle"
    /\ op = "none"
    /\ inp = [imageName |-> <<>>]
    /\ args = <<>>
    /\ execLog = <<>>
    /\ exitCode = NoExitCode
    /\ error = Undefined
    /\ processEnv \in EnvValues
    /\ fsPaths \in Filesystems

BuildImageCall ==
    /\ pc = "idle"
    /\ \E imageName \in ImageNames, checkoutPath \in CheckoutPaths,
          subFolder \in SubFolders, config \in BuildConfigs :
           buildImage(imageName, checkoutPath, subFolder, config)

BuildImageReturn ==
    /\ pc = "awaitExec"
    /\ \E code \in ExitCodes : buildImageResume(code)

RunContainerCall ==
    /\ pc = "idle"
    /\ \E imageName \in ImageNames, subFolder \in {<<"s">>}, command \in Commands,
          envs \in Envs, config \in RunConfigs :
           runContainer(imageName, <<"/","w">>, subFolder, command, envs, config)

RunContainerReturn ==
    /\ pc = "awaitExec"
    /\ \E code \in ExitCodes : runContainerResume(code)

PushImageCall ==
    /\ pc = "idle"
    /\ \E imageName \in ImageNames : pushImage(imageName)

PushImageReturn ==
    /\ pc = "awaitExec"
    /\ \E code \in ExitCodes : pushImageResume(code)

Next ==
    \/ BuildImageCall
    \/ BuildImageReturn
    \/ RunContainerCall
    \/ RunContainerReturn
    \/ PushImageCall
    \/ PushImageReturn

Spec == Init /\ [][Next]_vars

(***************************************************************************)
(* parseMount as a pure function: applied once to each mount string.       *)
(***************************************************************************)
InitParse ==
    /\ mountString \in MountStrings
    /\ parsed = [kind |-> "pending"]
    /\ pc = "idle"
    /\ op = "none"
    /\ inp = [imageName |-> <<>>]
    /\ args = <<>>
    /\ execLog = <<>>
    /\ exitCode = NoExitCode
    /\ error = Undefined
    /\ processEnv = <<>>
    /\ fsPaths = {}

ParseMountCall ==
    /\ parsed.kind = "pending"
    /\ parsed' = parseMount(mountString)
    /\ UNCHANGED <<mountString, callVars, envVars>>

NextParse == ParseMountCall

SpecParse == InitParse /\ [][NextParse]_vars

(***************************************************************************)
(* Reference notions the properties are stated with.  They are written     *)
(* from the mount-string format (positions of ',' and '='), not from the   *)
(* parser's loop.                                                          *)
(***************************************************************************)
RefMin(S) == CHOOSE x \in S : \A y \in S : x <= y

RefMax(S) == CHOOSE x \in S : \A y \in S : y <= x

\* the j-th smallest element of a set of integers
RefNth(S, j) == CHOOSE x \in S : Cardinality({y \in S : y < x}) = j - 1

\* the comma-separated segments of s: the text between consecutive commas
RefSegments(s) ==
    LET commas == {i \in 1..Len(s) : s[i] = ","}
        from == {0} \cup commas
        to == commas \cup {Len(s) + 1}
    IN  [j \in 1..(Cardinality(commas) + 1) |->
            SubSeq(s, RefNth(from, j) + 1, RefNth(to, j) - 1)]

\* the key of a segment: the text before its first '='
RefKey(seg) ==
    LET eqs == {i \in 1..Len(seg) : seg[i] = "="}
    IN  IF eqs = {} THEN seg ELSE SubSeq(seg, 1, RefMin(eqs) - 1)

\* the second '='-delimited token of a segment: absent without '='
RefValue(seg) ==
    LET eqs == {i \in 1..Len(seg) : seg[i] = "="}
        rest == eqs \ {RefMin(eqs)}
    IN  IF eqs = {} THEN Undefined
        ELSE SubSeq(seg, RefMin(eqs) + 1,
                    IF rest = {} THEN Len(seg) ELSE RefMin(rest) - 1)

TypeKeys == {<<"t","y","p","e">>}

SourceKeys == {<<"s","r","c">>, <<"s","o","u","r","c","e">>}

TargetKeys == {<<"d","s","t">>, <<"d","e","s","t","i","n","a","t","i","o","n">>, <<"t","a","r","g","e","t">>}

ReadOnlyKeys == {<<"r","e","a","d","o","n","l","y">>, <<"r","o">>}

RecognizedKeys == TypeKeys \cup SourceKeys \cup TargetKeys \cup ReadOnlyKeys

\* the positions of the segments of s whose key is in keys
RefCarriers(s, keys) ==
    LET segs == RefSegments(s)
    IN  {j \in 1..Len(segs) : RefKey(segs[j]) \in keys}

RefUnrecognized(s) ==
    LET segs == RefSegments(s)
    IN  {j \in 1..Len(segs) : RefKey(segs[j]) \notin RecognizedKeys}

\* a field of the reference MountSpec: '' if no segment carries one of its
\* keys, else the second token of the last segment that does
RefField(s, keys) ==
    LET carriers == RefCarriers(s, keys)
    IN  IF carriers = {} THEN <<>>
        ELSE RefValue(RefSegments(s)[RefMax(carriers)])

RefMountSpec(s) ==
    [type |-> RefField(s, TypeKeys),
     source |-> RefField(s, SourceKeys),
     target |-> RefField(s, TargetKeys)]

\* the segments of the mount string parseMount was applied to
Segs == RefSegments(mountString)

Parsed == parsed.kind # "pending"

\* a sequence with x inserted after position i, and with position j removed
RefInsert(ss, i, x) == SubSeq(ss, 1, i) \o <<x>> \o SubSeq(ss, i + 1, Len(ss))

RefRemove(ss, j) == SubSeq(ss, 1, j - 1) \o SubSeq(ss, j + 1, Len(ss))

\* the mount string made of the segments ss; of no segment, the empty string
RefMountString(ss) == IF ss = <<>> THEN <<>> ELSE join(ss, ",")

RefPermutations(n) == Permutations(1..n)

\* two outcomes of parseMount agree in kind and, if a MountSpec was
\* returned, in its type, source and target
RefSameOutcome(r1, r2) ==
    /\ r1.kind = r2.kind
    /\ r1.kind = "return" => r1.value = r2.value

(***************************************************************************)
(* C1.  parseMount fails for every mount string with a segment whose key   *)
(* is not recognized: it throws "Unhandled mount option '<key>'" naming    *)
(* the first such key in segment order and returns no MountSpec, whatever  *)
(* recognized segments precede or follow; an empty segment has key ''.     *)
(***************************************************************************)
C1_UnhandledOptionThrows ==
    (Parsed /\ RefUnrecognized(mountString) # {}) =>
        parsed = [kind |-> "throw",
                  message |-> concat(<<<<"U","n","h","a","n","d","l","e","d"," ","m","o","u","n","t"," ","o","p","t","i","o","n"," ","'">>,
                      RefKey(Segs[RefMin(RefUnrecognized(mountString))]),
                      <<"'">>>>)]

\* a recognized segment, then an unrecognized one, then a recognized one
C1_Witness ==
    /\ parsed.kind = "throw"
    /\ Len(Segs) = 3
    /\ RefUnrecognized(mountString) = {2}

(***************************************************************************)
(* C10.  For every mount string whose segments all have recognized keys,   *)
(* parseMount returns the reference MountSpec: each field is '' if no      *)
(* segment carries one of its keys, and otherwise the second '='-delimited *)
(* token of the last such segment, verbatim (undefined without '=').       *)
(***************************************************************************)
C10_ReturnsReferenceMountSpec ==
    (Parsed /\ RefUnrecognized(mountString) = {}) =>
        parsed = [kind |-> "return", value |-> RefMountSpec(mountString)]

\* the source is carried twice, last by a segment without '='
C10_Witness ==
    /\ parsed.kind = "return"
    /\ Cardinality(RefCarriers(mountString, SourceKeys)) = 2
    /\ parsed.value.source = Undefined
    /\ parsed.value.target = <<"/","a">>

(***************************************************************************)
(* C7 as stated.  For every mount string whose segments all have           *)
(* recognized keys, every permutation of its segments parses to the same   *)
(* MountSpec.                                                              *)
(***************************************************************************)
C7_AnyPermutationSameSpec ==
    (Parsed /\ RefUnrecognized(mountString) = {}) =>
        LET segs == Segs
        IN  \A p \in RefPermutations(Len(segs)) :
                parseMount(RefMountString([i \in 1..Len(segs) |-> segs[p[i]]])) = parsed

\* the segments that carry one field all give it the same value
RefFieldUnambiguous(s, keys) ==
    LET segs == RefSegments(s)
    IN  \A i, j \in RefCarriers(s, keys) : RefValue(segs[i]) = RefValue(segs[j])

(***************************************************************************)
(* C7 amended.  For every mount string whose segments all have recognized  *)
(* keys and in which the segments that set the same field (type; source;   *)
(* target) all carry the same value, every permutation of its segments     *)
(* parses to the same MountSpec.                                           *)
(***************************************************************************)
C7_PermutationSameSpecIfUnambiguous ==
    (/\ Parsed
     /\ RefUnrecognized(mountString) = {}
     /\ RefFieldUnambiguous(mountString, TypeKeys)
     /\ RefFieldUnambiguous(mountString, SourceKeys)
     /\ RefFieldUnambiguous(mountString, TargetKeys)) =>
        LET segs == Segs
        IN  \A p \in RefPermutations(Len(segs)) :
                parseMount(RefMountString([i \in 1..Len(segs) |-> segs[p[i]]])) = parsed

\* three segments that set the three fields
C7_Witness ==
    /\ parsed.kind = "return"
    /\ Len(Segs) = 3
    /\ Cardinality(RefCarriers(mountString, TypeKeys)) = 1
    /\ Cardinality(RefCarriers(mountString, SourceKeys)) = 1
    /\ Cardinality(RefCarriers(mountString, TargetKeys)) = 1
    /\ parsed.value = [type |-> <<"b","i","n","d">>, source |-> <<"/","b">>, target |-> <<"/","a">>]

ReadOnlySegments == {<<"r","o">>, <<"r","e","a","d","o","n","l","y","=","t","r","u","e">>}

\* inserting a read-only segment at any position changes nothing
RefInsertReadOnlyNeutral ==
    LET segs == Segs
    IN  \A i \in 0..Len(segs), r \in ReadOnlySegments :
            RefSameOutcome(parseMount(RefMountString(RefInsert(segs, i, r))), parsed)

(***************************************************************************)
(* C8 as stated.  Inserting or removing, at any position of any mount      *)
(* string, a segment whose key is 'readonly' or 'ro' changes neither the   *)
(* outcome kind nor the returned type, source and target.                  *)
(***************************************************************************)
C8_ReadOnlySegmentNeutral ==
    Parsed =>
        /\ RefInsertReadOnlyNeutral
        /\ LET segs == Segs
           IN  \A j \in RefCarriers(mountString, ReadOnlyKeys) :
                   RefSameOutcome(parseMount(RefMountString(RefRemove(segs, j))), parsed)

(***************************************************************************)
(* C8 amended.  Inserting a segment whose key is 'readonly' or 'ro' at any *)
(* position of any mount string, or removing one from a mount string that  *)
(* has another segment left, changes neither the outcome kind nor the      *)
(* returned type, source and target.                                       *)
(***************************************************************************)
C8_ReadOnlySegmentNeutralIfOneIsLeft ==
    Parsed =>
        /\ RefInsertReadOnlyNeutral
        /\ LET segs == Segs
           IN  Len(segs) > 1 =>
                   \A j \in RefCarriers(mountString, ReadOnlyKeys) :
                       RefSameOutcome(parseMount(RefMountString(RefRemove(segs, j))),
                                      parsed)

\* a read-only segment between two segments that set fields
C8_Witness ==
    /\ parsed.kind = "return"
    /\ Len(Segs) = 3
    /\ RefCarriers(mountString, ReadOnlyKeys) = {2}
    /\ parsed.value.type = <<"b","i","n","d">>
    /\ parsed.value.source = <<"/","a">>

(***************************************************************************)
(* Reference notions for the orchestration functions.                      *)
(***************************************************************************)
RefStartsWith(s, prefix) ==
    Len(prefix) <= Len(s) /\ SubSeq(s, 1, Len(prefix)) = prefix

\* the items of an optional array, none if it is absent
RefItems(opt) == IF opt.present THEN opt.items ELSE <<>>

\* <<flag, xs[1], flag, xs[2], ...>>
RefPairs(flag, xs) ==
    [i \in 1..(2 * Len(xs)) |-> IF i % 2 = 1 THEN flag ELSE xs[i \div 2]]

RefDecimal(n) ==
    CASE n = 0 -> <<"0">> [] n = 1 -> <<"1">> [] n = 130 -> <<"1","3","0">>

RefOperationName ==
    CASE op = "build" -> <<"b","u","i","l","d">> [] op = "run" -> <<"r","u","n">> [] op = "push" -> <<"p","u","s","h">>

\* the config-declared mount strings of a run call, placeholders substituted
RunMounts == mapSubstituteValues(RefItems(inp.config.mounts))

\* the number of leading mount strings without an unrecognized key
RunMountsParsed ==
    LET bad == {i \in 1..Len(RunMounts) : RefUnrecognized(RunMounts[i]) # {}}
    IN  IF bad = {} THEN Len(RunMounts) ELSE RefMin(bad) - 1

RefIsBind(m) == RefField(m, TypeKeys) = <<"b","i","n","d">>

RefSourceExists(m) == RefField(m, SourceKeys) \in fsPaths

\* the '--mount' pairs of the first k config mounts: all but the bind
\* mounts whose source does not exist, in config order
RunMountPairs(k) ==
    RefPairs(<<"-","-","m","o","u","n","t">>,
             SelectSeq(SubSeq(RunMounts, 1, k),
                       LAMBDA m : ~(RefIsBind(m) /\ ~RefSourceExists(m))))

RunWorkspaceMount ==
    <<<<"r","u","n">>, <<"-","-","m","o","u","n","t">>,
      concat(<<<<"t","y","p","e","=","b","i","n","d",",","s","r","c","=">>, inp.checkoutPath, <<",","d","s","t","=">>,
               inp.config.workspaceFolder>>)>>

RunCalled == op = "run" /\ pc # "idle"

BuildCalled == op = "build" /\ pc # "idle"

BuildHasNoDockerfile == inp.config.dockerfile \in {Undefined, <<>>}

(***************************************************************************)
(* C2.  buildImage with a config that has no Dockerfile configured fails   *)
(* with the 'dockerfile not set' error and never invokes the process       *)
(* runner, whatever the other arguments, the context and the build args.   *)
(***************************************************************************)
C2_NoDockerfileFailsBeforeExec ==
    (BuildCalled /\ BuildHasNoDockerfile) =>
        /\ pc = "threw"
        /\ RefStartsWith(error, <<"d","o","c","k","e","r","f","i","l","e"," ","n","o","t"," ","s","e","t">>)
        /\ execLog = <<>>
        /\ exitCode = NoExitCode

\* no Dockerfile, with a context and build args configured
C2_Witness ==
    /\ BuildCalled
    /\ inp.config.dockerfile = Undefined
    /\ inp.config.context = <<"c","t","x">>
    /\ Len(RefItems(inp.config.args)) = 2
    /\ pc = "threw"

(***************************************************************************)
(* C3.  For buildImage, runContainer and pushImage: once the runner has    *)
(* returned, a non-zero exit code makes the call fail with the message     *)
(* '<operation> failed with <exit code>', and exit code 0 makes it         *)
(* complete without error; nothing else decides the outcome.               *)
(***************************************************************************)
C3_ExitCodeDecidesOutcome ==
    (exitCode # NoExitCode) =>
        IF exitCode # 0
        THEN /\ pc = "threw"
             /\ error = concat(<<RefOperationName, <<" ","f","a","i","l","e","d"," ","w","i","t","h"," ">>,
                                 RefDecimal(exitCode)>>)
        ELSE /\ pc = "returned"
             /\ error = Undefined

\* a run whose runner returned 130
C3_Witness ==
    /\ op = "run"
    /\ exitCode = 130
    /\ pc = "threw"

(***************************************************************************)
(* C4.  In runContainer, each config mount that parses is skipped (no      *)
(* '--mount' pair) exactly if its type is 'bind' and its source does not   *)
(* exist, and otherwise contributes the one pair '--mount', <substituted   *)
(* string>, in config order; a missing bind source never makes the call    *)
(* fail nor keeps the runner from being invoked.                           *)
(***************************************************************************)
C4_MissingBindSourceIsSkipped ==
    RunCalled =>
        LET pairs == RunMountPairs(RunMountsParsed)
            n == Len(RunWorkspaceMount) + Len(pairs)
        IN  IF RunMountsParsed < Len(RunMounts)
            THEN args = RunWorkspaceMount \o pairs
            ELSE /\ Len(args) > n
                 /\ SubSeq(args, 1, n) = RunWorkspaceMount \o pairs
                 /\ args[n + 1] = <<"-","-","w","o","r","k","d","i","r">>
                 /\ Len(execLog) = 1
                 /\ execLog[1].args = args
                 /\ exitCode = NoExitCode => pc = "awaitExec"

\* a bind mount with a missing source is skipped and a mount of another
\* type with a missing source is kept, and the runner is invoked
C4_Witness ==
    /\ RunCalled
    /\ pc = "awaitExec"
    /\ Len(RunMounts) = 2
    /\ RefIsBind(RunMounts[1]) /\ ~RefSourceExists(RunMounts[1])
    /\ ~RefIsBind(RunMounts[2]) /\ ~RefSourceExists(RunMounts[2])
    /\ Len(RunMountPairs(2)) = 2

(***************************************************************************)
(* C5.  Whenever buildImage invokes the runner, the argument vector is     *)
(* 'buildx', 'build', '--tag', '<image>:latest', '--cache-from',           *)
(* 'type=registry,ref=<image>:latest', '--cache-to', 'type=inline',        *)
(* '--output=type=docker', one pair '--build-arg', '<name>=<substituted    *)
(* value>' per build arg in the config's key order, '-f', the Dockerfile   *)
(* path, and last the context path.                                        *)
(***************************************************************************)
C5_BuildArgumentVector ==
    (BuildCalled /\ execLog # <<>>) =>
        LET image == inp.imageName \o <<":","l","a","t","e","s","t">>
            buildArgs == RefItems(inp.config.args)
            folder == pathJoin(<<inp.checkoutPath, inp.subFolder>>)
        IN  execLog[1].args =
                <<<<"b","u","i","l","d","x">>, <<"b","u","i","l","d">>, <<"-","-","t","a","g">>, image,
                  <<"-","-","c","a","c","h","e","-","f","r","o","m">>, <<"t","y","p","e","=","r","e","g","i","s","t","r","y",",","r","e","f","=">> \o image,
                  <<"-","-","c","a","c","h","e","-","t","o">>, <<"t","y","p","e","=","i","n","l","i","n","e">>, <<"-","-","o","u","t","p","u","t","=","t","y","p","e","=","d","o","c","k","e","r">>>>
                \o RefPairs(<<"-","-","b","u","i","l","d","-","a","r","g">>,
                       [i \in 1..Len(buildArgs) |->
                           buildArgs[i].name \o <<"=">>
                               \o substituteValues(buildArgs[i].value)])
                \o <<<<"-","f">>,
                     pathJoin(<<folder, <<".","d","e","v","c","o","n","t","a","i","n","e","r">>, inp.config.dockerfile>>),
                     pathJoin(<<folder, <<".","d","e","v","c","o","n","t","a","i","n","e","r">>,
                                IF inp.config.context = Undefined THEN <<>>
                                ELSE inp.config.context>>)>>

\* two build args, one with a placeholder, and a configured context
C5_Witness ==
    /\ BuildCalled
    /\ pc = "awaitExec"
    /\ Len(RefItems(inp.config.args)) = 2
    /\ inp.config.args.items[1].name = <<"B">>
    /\ inp.config.args.items[1].value = <<"$">>
    /\ inp.config.context = <<"c","t","x">>

(***************************************************************************)
(* C6.  Whenever runContainer invokes the runner, the argument vector is   *)
(* 'run'; '--mount', 'type=bind,src=<checkout path>,dst=<workspaceFolder>';*)
(* the '--mount' pairs of the config mounts that are not skipped, each     *)
(* with its substituted original string; '--workdir', <workspaceFolder>;   *)
(* '--user', <remoteUser>; the substituted runArgs; one pair '--env',      *)
(* <entry> per env; '<image>:latest'; 'bash', '-c',                        *)
(* 'sudo chown -R $(whoami) . && <command>'.                               *)
(***************************************************************************)
C6_RunArgumentVector ==
    (RunCalled /\ execLog # <<>>) =>
        execLog[1].args =
            RunWorkspaceMount
            \o RunMountPairs(Len(RunMounts))
            \o <<<<"-","-","w","o","r","k","d","i","r">>, inp.config.workspaceFolder,
                 <<"-","-","u","s","e","r">>, inp.config.remoteUser>>
            \o mapSubstituteValues(RefItems(inp.config.runArgs))
            \o RefPairs(<<"-","-","e","n","v">>, RefItems(inp.envs))
            \o <<inp.imageName \o <<":","l","a","t","e","s","t">>,
                 <<"b","a","s","h">>, <<"-","c">>, <<"s","u","d","o"," ","c","h","o","w","n"," ","-","R"," ","$","(","w","h","o","a","m","i",")"," ","."," ","&","&"," ">> \o inp.command>>

\* a kept mount, a run arg and an env entry
C6_Witness ==
    /\ RunCalled
    /\ pc = "awaitExec"
    /\ Len(RunMountPairs(Len(RunMounts))) = 4
    /\ Len(RefItems(inp.config.runArgs)) = 2
    /\ Len(RefItems(inp.envs)) = 2

(***************************************************************************)
(* C9.  In every call of buildImage, runContainer or pushImage the runner  *)
(* is invoked exactly once if argument assembly completes and not at all   *)
(* if the call fails before that (no Dockerfile; a config mount with an    *)
(* unrecognized key, whatever was appended before it); it is never invoked *)
(* a second time, and a non-zero exit code is surfaced without a retry.    *)
(***************************************************************************)
C9_RunnerInvokedAtMostOnce ==
    LET failsBeforeExec ==
            \/ op = "build" /\ BuildHasNoDockerfile
            \/ op = "run" /\ RunMountsParsed < Len(RunMounts)
    IN  /\ pc = "idle" => execLog = <<>>
        /\ (pc # "idle" /\ failsBeforeExec) =>
               /\ execLog = <<>>
               /\ pc = "threw"
               /\ exitCode = NoExitCode
        /\ (pc # "idle" /\ ~failsBeforeExec) =>
               /\ Len(execLog) = 1
               /\ execLog[1] = [command |-> <<"d","o","c","k","e","r">>, args |-> args]
               /\ pc = "threw" => exitCode \notin {NoExitCode, 0}

\* a run that fails on its second mount after the first was appended
C9_Witness ==
    /\ RunCalled
    /\ pc = "threw"
    /\ execLog = <<>>
    /\ RunMountsParsed = 1
    /\ args = RunWorkspaceMount \o <<<<"-","-","m","o","u","n","t">>, RunMounts[1]>>

====
